---- MODULE Spec2Model ----
(***************************************************************************)
(* Model of public/usage-examples/graphics/fill_quad_on_window-1-example.py *)
(*                                                                         *)
(* The script is a straight-line sequence of calls into the splashkit      *)
(* library.  One action models one library call, in Python's evaluation    *)
(* order (the arguments of a call are evaluated left to right before the   *)
(* call itself, so window_width(window1) runs before the move_window_to of *)
(* line 15 and each color_*() runs before the call it is an argument of).  *)
(* Every call either returns or raises; the script has no try/except, so a *)
(* raised exception ends the run at that call.                             *)
(*                                                                         *)
(* The library is external.  What the model keeps of it is the part the    *)
(* script can observe: which handles are open, and the size and position   *)
(* the script gave each window.  open_window returns a handle the library  *)
(* chooses, distinct from the handles of the windows that are open.        *)
(***************************************************************************)
EXTENDS Integers, Sequences, FiniteSets, TLC

\* Number of distinct handles the library may hand out.
NumHandles == 3

Handles == 1..NumHandles

VARIABLES
    pc,       \* index in Sites of the next library call
    status,   \* "running", "done" (fell off the end) or "raised"
    env,      \* the script's variables q1..q4, window1, window2
    assigns,  \* how many times each variable has been assigned
    tmp,      \* values of already evaluated nested calls (argument values)
    windows,  \* library side: per handle, whether it is open, size, position
    calls     \* the library calls made so far, with arguments and results

vars == <<pc, status, env, assigns, tmp, windows, calls>>

\* The library calls of the script in evaluation order, each with its line.
Sites ==
    << <<"quad_from", 4>>, <<"quad_from", 5>>, <<"quad_from", 6>>,
       <<"quad_from", 7>>,
       <<"open_window", 10>>, <<"open_window", 11>>,
       <<"move_window_to", 14>>,
       <<"window_width", 15>>, <<"move_window_to", 15>>,
       <<"color_white", 17>>, <<"clear_screen", 17>>,
       <<"color_black", 20>>, <<"fill_quad_on_window", 20>>,
       <<"color_green", 21>>, <<"fill_quad_on_window", 21>>,
       <<"color_red", 24>>, <<"fill_quad_on_window", 24>>,
       <<"color_blue", 25>>, <<"fill_quad_on_window", 25>>,
       <<"refresh_screen", 27>>,
       <<"delay", 28>>,
       <<"close_all_windows", 29>> >>

LastPc == Len(Sites)

\* Mutants of NextPc: clear_screen(color_white()) left out; delay left out;
\* close_all_windows left out; close_all_windows moved up to after line 11.
NextPcSkipClear(p) == IF p = 9 THEN 12 ELSE p + 1

NextPcSkipDelay(p) == IF p = 20 THEN 22 ELSE p + 1

NextPcNoClose(p) == IF p = 21 THEN 23 ELSE p + 1

NextPcCloseEarly(p) ==
    IF p = 6 THEN 22 ELSE IF p = 22 THEN 7 ELSE IF p = 21 THEN 23 ELSE p + 1

\* Straight-line control flow: no branch, no loop.
NextPc(p) == p + 1

\* Mutant of Uncaught: the exception is swallowed and the script goes on.
Swallowed == "running"

\* No try/except anywhere: an exception leaves the module.
Uncaught == "raised"

Vars == {"q1", "q2", "q3", "q4", "window1", "window2"}

\* Mutants of quad_from_args: q4 built from three points; q2 reaching x = 700.
quad_from_args_short(line) ==
    CASE line = 4 -> <<400, 200, 300, 300, 300, 0, 200, 200>>
      [] line = 5 -> <<400, 210, 310, 300, 600, 300, 400, 390>>
      [] line = 6 -> <<200, 400, 300, 300, 300, 600, 400, 400>>
      [] line = 7 -> <<200, 390, 290, 300, 0, 300>>

quad_from_args_outside(line) ==
    CASE line = 4 -> <<400, 200, 300, 300, 300, 0, 200, 200>>
      [] line = 5 -> <<400, 210, 310, 300, 700, 300, 400, 390>>
      [] line = 6 -> <<200, 400, 300, 300, 300, 600, 400, 400>>
      [] line = 7 -> <<200, 390, 290, 300, 0, 300, 200, 210>>

\* quad_from(x1, y1, x2, y2, x3, y3, x4, y4): the literals of lines 4-7.
quad_from_args(line) ==
    CASE line = 4 -> <<400, 200, 300, 300, 300, 0, 200, 200>>
      [] line = 5 -> <<400, 210, 310, 300, 600, 300, 400, 390>>
      [] line = 6 -> <<200, 400, 300, 300, 300, 600, 400, 400>>
      [] line = 7 -> <<200, 390, 290, 300, 0, 300, 200, 210>>

\* The variable each quad_from result is assigned to.
quad_from_target(line) ==
    CASE line = 4 -> "q1" [] line = 5 -> "q2" [] line = 6 -> "q3" [] line = 7 -> "q4"

\* The quad the library builds from eight numbers: four (x, y) points.
MakeQuad(xs) == [i \in 1..(Len(xs) \div 2) |-> <<xs[2 * i - 1], xs[2 * i]>>]

\* open_window(title, width, height): the literals of lines 10-11.
open_window_title(line) ==
    CASE line = 10 -> "Filled Diamond On Window 1"
      [] line = 11 -> "Filled Diamond On Window 2"

open_window_size(line) ==
    CASE line = 10 -> <<600, 600>> [] line = 11 -> <<600, 600>>

open_window_target(line) ==
    CASE line = 10 -> "window1" [] line = 11 -> "window2"

\* move_window_to(window, x, y): the window variable and the (x, y) passed.
\* width is the value window_width(window1) returned on line 15.
move_window_to_window(line) ==
    CASE line = 14 -> "window1" [] line = 15 -> "window2"

\* Mutants of move_window_to_args: the width is halved before it is passed;
\* window2 is moved to the origin as well.
move_window_to_args_halved(line, width) ==
    CASE line = 14 -> <<0, 0>> [] line = 15 -> <<width \div 2, 0>>

move_window_to_args_origin(line, width) ==
    CASE line = 14 -> <<0, 0>> [] line = 15 -> <<0, 0>>

move_window_to_args(line, width) ==
    CASE line = 14 -> <<0, 0>> [] line = 15 -> <<width, 0>>

\* Mutant of fill_window: q3 is drawn on window1.
fill_window_q3_on_window1(line) ==
    CASE line = 20 -> "window1" [] line = 21 -> "window1"
      [] line = 24 -> "window1" [] line = 25 -> "window2"

\* fill_quad_on_window(window, color, quad): the variables passed.
fill_window(line) ==
    CASE line = 20 -> "window1" [] line = 21 -> "window1"
      [] line = 24 -> "window2" [] line = 25 -> "window2"

fill_quad(line) ==
    CASE line = 20 -> "q1" [] line = 21 -> "q2"
      [] line = 24 -> "q3" [] line = 25 -> "q4"

\* The color a color_*() function returns.
ColorOf(fn) ==
    CASE fn = "color_white" -> "white" [] fn = "color_black" -> "black"
      [] fn = "color_green" -> "green" [] fn = "color_red" -> "red"
      [] fn = "color_blue" -> "blue"

ColorFns == {"color_white", "color_black", "color_green", "color_red", "color_blue"}

\* delay(5000)
delay_args == <<5000>>

ClosedWindow == [open |-> FALSE, w |-> 0, h |-> 0, x |-> 0, y |-> 0]

IsOpen(h) == h \in Handles /\ windows[h].open

\* A call record: the arguments by kind (absent ones keep the defaults) and
\* the result by kind.  live: the window argument, if any, was open.
Call(k) ==
    [fn |-> Sites[k][1], line |-> Sites[k][2],
     win |-> 0, color |-> "", quad |-> <<>>, nums |-> <<>>, title |-> "",
     live |-> TRUE, ok |-> TRUE,
     retWin |-> 0, retColor |-> "", retQuad |-> <<>>, retNum |-> 0]

WithWin(c, h) == [c EXCEPT !.win = h, !.live = IsOpen(h)]

At(k) == status = "running" /\ pc = k /\ k \in DOMAIN Sites

Advance ==
    /\ pc' = NextPc(pc)
    /\ status' = IF NextPc(pc) > LastPc THEN "done" ELSE "running"

\* The call returns: it is logged and control moves to the next call.
Returns(c) ==
    /\ calls' = Append(calls, c)
    /\ Advance

\* The call raises: it is logged as failed and the exception propagates.
Raises(c) ==
    /\ calls' = Append(calls, [c EXCEPT !.ok = FALSE])
    /\ status' = Uncaught
    /\ UNCHANGED <<pc, env, assigns, tmp, windows>>

Bind(var, val) ==
    /\ env' = [env EXCEPT ![var] = val]
    /\ assigns' = [assigns EXCEPT ![var] = @ + 1]

Init ==
    /\ pc = 1
    /\ status = "running"
    /\ env = [q1 |-> <<>>, q2 |-> <<>>, q3 |-> <<>>, q4 |-> <<>>,
              window1 |-> 0, window2 |-> 0]
    /\ assigns = [v \in Vars |-> 0]
    /\ tmp = [num |-> 0, color |-> ""]
    /\ windows = [h \in Handles |-> ClosedWindow]
    /\ calls = <<>>

\* qN = quad_from(...)
quad_from(k) ==
    /\ At(k)
    /\ LET line == Sites[k][2]
           c == [Call(k) EXCEPT !.nums = quad_from_args(line)]
           q == MakeQuad(c.nums)
       IN  \/ /\ Returns([c EXCEPT !.retQuad = q])
              /\ Bind(quad_from_target(line), q)
              /\ UNCHANGED <<tmp, windows>>
           \/ Raises(c)

\* windowN = open_window(title, 600, 600)
open_window(k) ==
    /\ At(k)
    /\ LET line == Sites[k][2]
           c == [Call(k) EXCEPT !.title = open_window_title(line),
                                !.nums = open_window_size(line)]
       IN  \/ \E h \in Handles :
                /\ ~windows[h].open
                /\ Returns([c EXCEPT !.retWin = h])
                /\ Bind(open_window_target(line), h)
                /\ windows' = [windows EXCEPT ![h] =
                                  [open |-> TRUE, w |-> c.nums[1], h |-> c.nums[2],
                                   x |-> 0, y |-> 0]]
                /\ UNCHANGED tmp
           \/ Raises(c)

\* window_width(window1), the second argument of line 15's move_window_to
window_width(k) ==
    /\ At(k)
    /\ LET c == WithWin(Call(k), env.window1)
           r == IF IsOpen(c.win) THEN windows[c.win].w ELSE 0
       IN  \/ /\ Returns([c EXCEPT !.retNum = r])
              /\ tmp' = [tmp EXCEPT !.num = r]
              /\ UNCHANGED <<env, assigns, windows>>
           \/ Raises(c)

\* move_window_to(window, x, y)
move_window_to(k) ==
    /\ At(k)
    /\ LET line == Sites[k][2]
           c == [WithWin(Call(k), env[move_window_to_window(line)])
                    EXCEPT !.nums = move_window_to_args(line, tmp.num)]
       IN  \/ /\ Returns(c)
              /\ windows' = IF IsOpen(c.win)
                            THEN [windows EXCEPT ![c.win].x = c.nums[1],
                                                 ![c.win].y = c.nums[2]]
                            ELSE windows
              /\ UNCHANGED <<env, assigns, tmp>>
           \/ Raises(c)

\* color_white(), color_black(), color_green(), color_red(), color_blue()
color(k) ==
    /\ At(k)
    /\ LET c == Call(k)
           r == ColorOf(c.fn)
       IN  \/ /\ Returns([c EXCEPT !.retColor = r])
              /\ tmp' = [tmp EXCEPT !.color = r]
              /\ UNCHANGED <<env, assigns, windows>>
           \/ Raises(c)

\* clear_screen(color_white())
clear_screen(k) ==
    /\ At(k)
    /\ LET c == [Call(k) EXCEPT !.color = tmp.color]
       IN  \/ /\ Returns(c)
              /\ UNCHANGED <<env, assigns, tmp, windows>>
           \/ Raises(c)

\* fill_quad_on_window(window, color_*(), q)
fill_quad_on_window(k) ==
    /\ At(k)
    /\ LET line == Sites[k][2]
           c == [WithWin(Call(k), env[fill_window(line)])
                    EXCEPT !.color = tmp.color, !.quad = env[fill_quad(line)]]
       IN  \/ /\ Returns(c)
              /\ UNCHANGED <<env, assigns, tmp, windows>>
           \/ Raises(c)

\* refresh_screen()
refresh_screen(k) ==
    /\ At(k)
    /\ LET c == Call(k)
       IN  \/ /\ Returns(c)
              /\ UNCHANGED <<env, assigns, tmp, windows>>
           \/ Raises(c)

\* delay(5000)
delay(k) ==
    /\ At(k)
    /\ LET c == [Call(k) EXCEPT !.nums = delay_args]
       IN  \/ /\ Returns(c)
              /\ UNCHANGED <<env, assigns, tmp, windows>>
           \/ Raises(c)

\* close_all_windows()
close_all_windows(k) ==
    /\ At(k)
    /\ LET c == Call(k)
       IN  \/ /\ Returns(c)
              /\ windows' = [h \in Handles |-> [windows[h] EXCEPT !.open = FALSE]]
              /\ UNCHANGED <<env, assigns, tmp>>
           \/ Raises(c)

SitesOf(fns) == {k \in DOMAIN Sites : Sites[k][1] \in fns}

Next ==
    \/ \E k \in SitesOf({"quad_from"}) : quad_from(k)
    \/ \E k \in SitesOf({"open_window"}) : open_window(k)
    \/ \E k \in SitesOf({"window_width"}) : window_width(k)
    \/ \E k \in SitesOf({"move_window_to"}) : move_window_to(k)
    \/ \E k \in SitesOf(ColorFns) : color(k)
    \/ \E k \in SitesOf({"clear_screen"}) : clear_screen(k)
    \/ \E k \in SitesOf({"fill_quad_on_window"}) : fill_quad_on_window(k)
    \/ \E k \in SitesOf({"refresh_screen"}) : refresh_screen(k)
    \/ \E k \in SitesOf({"delay"}) : delay(k)
    \/ \E k \in SitesOf({"close_all_windows"}) : close_all_windows(k)

Spec == Init /\ [][Next]_vars

\* The interpreter keeps executing: a pending call is eventually made.
LiveSpec == Spec /\ WF_vars(Next)

(***************************************************************************)
(* Properties                                                              *)
(***************************************************************************)

Idx == 1..Len(calls)

Made(i, fn) == calls[i].fn = fn

Done(i, fn) == calls[i].fn = fn /\ calls[i].ok

Count(S) == Cardinality(S)

\* The eight phases of the script; the nested argument calls
\* (window_width, color_*) belong to no phase of their own.
Phase(fn) ==
    CASE fn = "quad_from" -> 1 [] fn = "open_window" -> 2
      [] fn = "move_window_to" -> 3 [] fn = "clear_screen" -> 4
      [] fn = "fill_quad_on_window" -> 5 [] fn = "refresh_screen" -> 6
      [] fn = "delay" -> 7 [] fn = "close_all_windows" -> 8
      [] OTHER -> 0

\* How many calls each phase consists of.
PhaseSize == <<4, 2, 2, 1, 4, 1, 1, 1>>

InPhase(p) == {i \in Idx : Phase(calls[i].fn) = p}

\* C1: the library calls occur in the fixed phase order quad_from x4,
\* open_window x2, move_window_to x2, clear_screen, fill_quad_on_window x4,
\* refresh_screen, delay, close_all_windows: a call of a phase is made only
\* when every call of every earlier phase has been made and has returned, no
\* phase has more calls than its size, and nothing follows close_all_windows.
C1_PhaseOrder ==
    /\ \A i \in Idx :
          LET p == Phase(calls[i].fn)
          IN  p > 0 =>
                /\ \A q \in 1..(p - 1) :
                      /\ Count({j \in InPhase(q) : j < i /\ calls[j].ok}) = PhaseSize[q]
                /\ \A j \in Idx : j < i => Phase(calls[j].fn) <= p
    /\ \A p \in DOMAIN PhaseSize : Count(InPhase(p)) <= PhaseSize[p]
    /\ \A i \in Idx : Made(i, "close_all_windows") => i = Len(calls)
    /\ status = "done" =>
          /\ \A p \in DOMAIN PhaseSize : Count(InPhase(p)) = PhaseSize[p]
          /\ Made(Len(calls), "close_all_windows")

C1_Witness ==
    /\ status = "done"
    /\ \E i, j, k \in Idx :
          /\ i < j /\ j < k
          /\ Done(i, "clear_screen") /\ Done(j, "fill_quad_on_window")
          /\ Done(k, "refresh_screen")

C2_Once ==
    /\ \A i, j \in Idx :
          i < j => <<calls[i].fn, calls[i].line>> # <<calls[j].fn, calls[j].line>>
    /\ status = "done" =>
          /\ Len(calls) = Len(Sites)
          /\ \A k \in DOMAIN Sites :
                /\ calls[k].fn = Sites[k][1]
                /\ calls[k].line = Sites[k][2]
                /\ calls[k].ok
          /\ Made(Len(calls), "close_all_windows")

\* C2: the script is one straight-line sequence: no call site is executed
\* twice, a finished run has executed every call site exactly once in source
\* order with close_all_windows last, and when no library call raises the
\* run eventually finishes.
C2_StraightLine ==
    /\ []C2_Once
    /\ ([](status # "raised")) => <>(status = "done")

C2_Witness ==
    /\ status = "done"
    /\ Len(calls) = Len(Sites)
    /\ \A i \in Idx : calls[i].ok

OpenHandles == {h \in Handles : windows[h].open}

\* C3: at most two windows are ever open, open_window is called at most
\* twice (for window1, then for window2), and a finished run has opened
\* exactly two windows and has none of them open.
C3_WindowLifecycle ==
    /\ Count(OpenHandles) <= 2
    /\ Count({i \in Idx : Made(i, "open_window")}) <= 2
    /\ \A i, j \in Idx :
          (Made(i, "open_window") /\ Made(j, "open_window") /\ i < j) =>
             /\ calls[i].ok /\ calls[i].retWin = env.window1
             /\ calls[j].ok => calls[j].retWin = env.window2
    /\ status = "done" =>
          /\ Count({i \in Idx : Done(i, "open_window")}) = 2
          /\ OpenHandles = {}
          /\ ~IsOpen(env.window1) /\ ~IsOpen(env.window2)

C3_Witness ==
    /\ status = "done"
    /\ env.window1 # 0 /\ env.window2 # 0
    /\ OpenHandles = {}

Fills == {i \in Idx : Made(i, "fill_quad_on_window")}

\* The routing of the four fills: quad variable, window variable, color.
Routing ==
    { <<"q1", "window1", "black">>, <<"q2", "window1", "green">>,
      <<"q3", "window2", "red">>, <<"q4", "window2", "blue">> }

\* C4: every fill passes one of the four quads with the window and the
\* color of its route (q1 black and q2 green on window1, q3 red and q4 blue
\* on window2), the two windows are different handles, no quad is filled
\* twice, and a finished run has made exactly four fills, one per quad and
\* two per window.
C4_FillRouting ==
    /\ \A i \in Fills :
          \E r \in Routing :
             /\ calls[i].quad = env[r[1]] /\ calls[i].quad # <<>>
             /\ calls[i].win = env[r[2]] /\ calls[i].win # 0
             /\ calls[i].color = r[3]
    /\ \A i, j \in Fills : i # j => calls[i].quad # calls[j].quad
    /\ Fills # {} => env.window1 # env.window2
    /\ status = "done" =>
          /\ Count(Fills) = 4
          /\ \A r \in Routing :
                Count({i \in Fills : calls[i].ok /\ calls[i].quad = env[r[1]]}) = 1
          /\ \A v \in {"window1", "window2"} :
                Count({i \in Fills : calls[i].ok /\ calls[i].win = env[v]}) = 2

C4_Witness ==
    /\ status = "done"
    /\ Count({i \in Fills : calls[i].ok}) = 4

RECURSIVE PairsUpTo(_)
\* The number of (x, y) pairs passed to the first n calls' quad_from calls.
PairsUpTo(n) ==
    IF n = 0 THEN 0
    ELSE PairsUpTo(n - 1) +
         (IF Done(n, "quad_from") THEN Len(calls[n].nums) \div 2 ELSE 0)

PairsConsumed == PairsUpTo(Len(calls))

HandlesCreated == {calls[i].retWin : i \in {j \in Idx : Done(j, "open_window")}}

ColorsUsed == {calls[i].retColor : i \in {j \in Idx : calls[j].fn \in ColorFns /\ calls[j].ok}}

\* C5 as stated: over the whole script the quad constructions consume eight
\* (x, y) pairs, two window handles are created and four distinct colors
\* are used.
C5_AsStated ==
    status = "done" =>
       /\ PairsConsumed = 8
       /\ Count(HandlesCreated) = 2
       /\ Count(ColorsUsed) = 4

\* C5 (amended): each quad_from call consumes four (x, y) pairs; over the
\* whole script the quad constructions consume sixteen pairs, exactly two
\* window handles are created and exactly five distinct colors are used
\* (white for clear_screen; black, green, red and blue for the fills).
C5_DataValues ==
    /\ \A i \in Idx : Made(i, "quad_from") => Len(calls[i].nums) = 8
    /\ PairsConsumed <= 16
    /\ Count(HandlesCreated) <= 2
    /\ Count(ColorsUsed) <= 5
    /\ status = "done" =>
          /\ PairsConsumed = 16
          /\ Count(HandlesCreated) = 2
          /\ ColorsUsed = {"white", "black", "green", "red", "blue"}
          /\ Count(ColorsUsed) = 5

C5_Witness ==
    /\ status = "done"
    /\ PairsConsumed = 16
    /\ "white" \in ColorsUsed

\* C6: no call site is attempted twice, nothing is called after a call that
\* raised, a raise stops the script at that call with no further step
\* possible, and a raise after the first open_window returned and before
\* line 29 leaves the run without a close_all_windows call, window1 open.
C6_NoRecovery ==
    /\ \A i, j \in Idx :
          i < j => <<calls[i].fn, calls[i].line>> # <<calls[j].fn, calls[j].line>>
    /\ \A i \in Idx : i < Len(calls) => calls[i].ok
    /\ (\E i \in Idx : ~calls[i].ok) => status = "raised"
    /\ status = "raised" =>
          /\ calls # <<>>
          /\ ~calls[Len(calls)].ok
          /\ <<calls[Len(calls)].fn, calls[Len(calls)].line>> = Sites[pc]
          /\ ~ENABLED Next
          /\ ((\E i \in Idx : Done(i, "open_window")) /\ calls[Len(calls)].line < 29) =>
                /\ \A i \in Idx : ~Made(i, "close_all_windows")
                /\ IsOpen(env.window1)

C6_Witness ==
    /\ status = "raised"
    /\ calls # <<>>
    /\ Made(Len(calls), "fill_quad_on_window") /\ calls[Len(calls)].line = 24
    /\ IsOpen(env.window1) /\ IsOpen(env.window2)

\* The numeric literals written on each line of the script.
Literals(line) ==
    CASE line = 4 -> {400, 200, 300, 0}
      [] line = 5 -> {400, 210, 310, 300, 600, 390}
      [] line = 6 -> {200, 400, 300, 600}
      [] line = 7 -> {200, 390, 290, 300, 0, 210}
      [] line = 10 -> {600}
      [] line = 11 -> {600}
      [] line = 14 -> {0}
      [] line = 15 -> {0}
      [] line = 28 -> {5000}
      [] OTHER -> {}

WindowFns == {"move_window_to", "window_width", "fill_quad_on_window"}

\* The call that creates each variable's value.
Creator(v) ==
    CASE v = "q1" -> <<"quad_from", 4>> [] v = "q2" -> <<"quad_from", 5>>
      [] v = "q3" -> <<"quad_from", 6>> [] v = "q4" -> <<"quad_from", 7>>
      [] v = "window1" -> <<"open_window", 10>>
      [] v = "window2" -> <<"open_window", 11>>

IsQuadVar(v) == v \in {"q1", "q2", "q3", "q4"}

\* C7: every argument of every library call is a literal of its line or the
\* unchanged result of an earlier library call (a window handle from
\* open_window, a quad from quad_from, a color from the color_*() call just
\* before, a number from window_width), and each of q1..q4, window1, window2
\* is assigned at most once (exactly once in a finished run) and still holds
\* the value its creating call returned.
C7_PassThrough ==
    /\ \A i \in Idx :
          LET c == calls[i]
          IN  /\ c.fn \in WindowFns => c.win # 0
              /\ c.fn \in {"clear_screen", "fill_quad_on_window"} => c.color # ""
              /\ c.fn = "fill_quad_on_window" => c.quad # <<>>
              /\ c.win # 0 =>
                    \E j \in Idx : j < i /\ Done(j, "open_window") /\ calls[j].retWin = c.win
              /\ c.quad # <<>> =>
                    \E j \in Idx : j < i /\ Done(j, "quad_from") /\ calls[j].retQuad = c.quad
              /\ c.color # "" =>
                    /\ i > 1 /\ calls[i - 1].ok /\ calls[i - 1].fn \in ColorFns
                    /\ calls[i - 1].line = c.line
                    /\ calls[i - 1].retColor = c.color
              /\ \A n \in DOMAIN c.nums :
                    \/ c.nums[n] \in Literals(c.line)
                    \/ /\ i > 1 /\ Done(i - 1, "window_width")
                       /\ calls[i - 1].line = c.line
                       /\ calls[i - 1].retNum = c.nums[n]
    /\ \A v \in Vars :
          /\ assigns[v] <= 1
          /\ status = "done" => assigns[v] = 1
          /\ assigns[v] = 0 => (IF IsQuadVar(v) THEN env[v] = <<>> ELSE env[v] = 0)
          /\ assigns[v] = 1 =>
                \E j \in Idx :
                   /\ calls[j].ok /\ <<calls[j].fn, calls[j].line>> = Creator(v)
                   /\ IF IsQuadVar(v) THEN env[v] = calls[j].retQuad
                                      ELSE env[v] = calls[j].retWin

C7_Witness ==
    \E i \in Idx :
       /\ Done(i, "move_window_to") /\ calls[i].line = 15
       /\ calls[i].win = env.window2 /\ calls[i].win # 0
       /\ calls[i].nums[1] = calls[i - 1].retNum
       /\ calls[i].nums[1] # 0

BothMoved ==
    \E i \in Idx : Done(i, "move_window_to") /\ calls[i].line = 15

\* C8: once both move_window_to calls have returned, window1 is at (0, 0)
\* and window2 at (window_width(window1), 0) = (600, 0): same y, and the
\* horizontal extents [0, 600) and [600, 1200) do not overlap; the move of
\* window1 is made before the move of window2.
C8_SideBySide ==
    /\ BothMoved =>
          LET a == windows[env.window1]
              b == windows[env.window2]
          IN  /\ a.x = 0 /\ a.y = 0
              /\ a.w = 600 /\ b.w = 600
              /\ b.x = a.w /\ b.x = 600 /\ b.y = 0
              /\ a.y = b.y
              /\ a.x + a.w <= b.x
              /\ b.x + b.w = 1200
    /\ \A i, j \in Idx :
          (Made(i, "move_window_to") /\ Made(j, "move_window_to") /\ i < j) =>
             /\ calls[i].win = env.window1
             /\ calls[j].win = env.window2
             /\ calls[i].nums = <<0, 0>>
             /\ calls[j].nums = <<600, 0>>

C8_Witness ==
    /\ BothMoved
    /\ IsOpen(env.window1) /\ IsOpen(env.window2)
    /\ windows[env.window2].x = 600

\* C9: every call that takes a window handle is made on a handle open_window
\* returned earlier and that is open at the time of the call, and both
\* windows are open whenever refresh_screen or delay is the call at hand and
\* until close_all_windows is called.
C9_HandlesLive ==
    /\ \A i \in Idx :
          calls[i].fn \in WindowFns =>
             /\ calls[i].live
             /\ \E j \in Idx : j < i /\ Done(j, "open_window") /\ calls[j].retWin = calls[i].win
    /\ \A i \in Idx :
          Made(i, "close_all_windows") =>
             \A j \in Idx : calls[j].fn \in WindowFns => j < i
    /\ (pc \in DOMAIN Sites /\ Sites[pc][1] \in {"refresh_screen", "delay", "close_all_windows"}
           /\ \A i \in Idx : ~Done(i, "close_all_windows")) =>
          /\ IsOpen(env.window1) /\ IsOpen(env.window2)

C9_Witness ==
    /\ status = "running"
    /\ pc \in DOMAIN Sites /\ Sites[pc][1] = "delay"
    /\ IsOpen(env.window1) /\ IsOpen(env.window2)
    /\ \E i \in Idx : Done(i, "fill_quad_on_window") /\ calls[i].live

InRange(q, w, h) ==
    \A n \in DOMAIN q : /\ 0 <= q[n][1] /\ q[n][1] <= w
                        /\ 0 <= q[n][2] /\ q[n][2] <= h

\* C10: every vertex of every quad built lies in 0..600 on both axes, and
\* every quad passed to fill_quad_on_window lies within the width and the
\* height of the window it is filled on.
C10_QuadsInWindow ==
    /\ \A v \in {"q1", "q2", "q3", "q4"} : InRange(env[v], 600, 600)
    /\ \A i \in Fills :
          /\ calls[i].win \in Handles
          /\ windows[calls[i].win].w = 600 /\ windows[calls[i].win].h = 600
          /\ InRange(calls[i].quad, windows[calls[i].win].w, windows[calls[i].win].h)

C10_Witness ==
    \E i \in Fills :
       /\ calls[i].ok
       /\ \E n \in DOMAIN calls[i].quad : calls[i].quad[n] = <<600, 300>>

====
